---- MODULE Spec2Model ----
(***************************************************************************)
(* Resume ranker: the entity-extraction consensus of                      *)
(* enhanced_extraction.py and the batch ranking handler of app.py.         *)
(*                                                                         *)
(* Six specifications share the variables below:                          *)
(*   SpecConsensus  get_best_name / get_best_email on candidate triples    *)
(*   SpecExtract    extract_entities_multi_approach on strategy outcomes   *)
(*   SpecYears      extract_experience_years on token sequences            *)
(*   SpecHeuristic  extract_name_heuristic on line sequences               *)
(*   Spec           one POST request of index() on a fresh server          *)
(*   SpecExport     any sequence of POST requests (the CSV file persists)  *)
(***************************************************************************)
EXTENDS Integers, Sequences, FiniteSets, TLC

VARIABLES
    pc,                 \* position of the handler / of the function under study
    nlp,                \* extractor.nlp is loaded (TRUE) or None (FALSE)
    name_cands,         \* <<name_pyr, name_regex, name_spacy>>
    email_cands,        \* <<email_pyr, email_regex, email_spacy>>
    valid_emails,       \* the strings validate_email accepts
    best_name,          \* outcome of get_best_name
    best_email,         \* outcome of get_best_email
    strategies,         \* outcomes of the three strategies for one resume
    entities,           \* outcome of extract_entities_multi_approach
    text_tokens,        \* text given to extract_experience_years
    years,              \* its result
    text_lines,         \* text.split('\n') given to extract_name_heuristic
    heuristic_name,     \* its result
    job_description,    \* request.form['job_description']
    submitted,          \* the uploads iterated so far, in submission order
    scanned_resumes,    \* app.py scanned_resumes
    processing_errors,  \* app.py processing_errors
    ranked_resumes,     \* app.py ranked_resumes
    last_score,         \* outcome of the latest enhanced_similarity_scoring call
    results,            \* the ranking handed to the template
    csv_file            \* ranked_resumes.csv: absent, or a header and rows

vars == << pc, nlp, name_cands, email_cands, valid_emails, best_name, best_email,
           strategies, entities, text_tokens, years, text_lines, heuristic_name,
           job_description, submitted, scanned_resumes, processing_errors,
           ranked_resumes, last_score, results, csv_file >>

consensusVars == << name_cands, email_cands, valid_emails, best_name, best_email >>
extractVars   == << strategies, entities >>
yearsVars     == << text_tokens, years >>
heuristicVars == << text_lines, heuristic_name >>
requestVars   == << job_description, submitted, scanned_resumes, processing_errors,
                    ranked_resumes, last_score, results, csv_file >>

-----------------------------------------------------------------------------
(* Values *)

NA == "N/A"                 \* the sentinel string
None == "<None>"            \* Python None (not a str)
Missing == "<missing>"      \* a key absent from the parser's mapping

Names  == {"Jane Doe", "Alice B"}
Emails == {"good@example.com", "bad@@x"}
Phones == {"555-123-4567"}

Returned(v) == [status |-> "returned", value |-> v]
Raised(e)   == [status |-> "raised", value |-> e]
Pending     == [status |-> "pending", value |-> NA]

-----------------------------------------------------------------------------
(* Consensus resolver: enhanced_extraction.py lines 105-138 *)

\* [name for name in candidates if name != "N/A"]
RECURSIVE ValidCandidates(_)
ValidCandidates(candidates) ==
    IF candidates = << >> THEN << >>
    ELSE IF Head(candidates) # NA
         THEN << Head(candidates) >> \o ValidCandidates(Tail(candidates))
         ELSE ValidCandidates(Tail(candidates))

\* list.count
Count(seq, x) == Cardinality({i \in 1..Len(seq) : seq[i] = x})

\* for candidate in valid_candidates: if valid_candidates.count(candidate) > 1
RECURSIVE FirstRepeated(_, _)
FirstRepeated(valid_candidates, i) ==
    IF i > Len(valid_candidates) THEN Missing
    ELSE IF Count(valid_candidates, valid_candidates[i]) > 1
         THEN valid_candidates[i]
         ELSE FirstRepeated(valid_candidates, i + 1)

\* the fallback written with the regex candidate ahead of the NER candidate
PriorityNameRegexFirst(name_pyr, name_regex, name_spacy) ==
    IF name_pyr # NA THEN name_pyr
    ELSE IF name_regex # NA THEN name_regex
    ELSE name_spacy

\* lines 118-124: PyResParser > spaCy > Regex
PriorityName(name_pyr, name_regex, name_spacy) ==
    IF name_pyr # NA THEN name_pyr
    ELSE IF name_spacy # NA THEN name_spacy
    ELSE name_regex

get_best_name(name_pyr, name_regex, name_spacy) ==
    LET candidates == << name_pyr, name_regex, name_spacy >>
        valid_candidates == ValidCandidates(candidates)
        repeated == FirstRepeated(valid_candidates, 1)
    IN  IF valid_candidates = << >> THEN NA
        ELSE IF repeated # Missing THEN repeated
        ELSE PriorityName(name_pyr, name_regex, name_spacy)

\* email_validator.validate_email as the code uses it: a str passes or raises
\* EmailNotValidError; None is no str, and the call raises an error that
\* `except EmailNotValidError` does not catch
validate_email(email, valid) ==
    IF email = None THEN "AttributeError"
    ELSE IF email \in valid THEN "ok"
    ELSE "EmailNotValidError"

\* the loop returning the first candidate it meets, validated or not
RECURSIVE BestEmailUnvalidated(_, _, _)
BestEmailUnvalidated(candidates, i, valid) ==
    IF i > Len(candidates) THEN Returned(NA)
    ELSE IF candidates[i] # NA THEN Returned(candidates[i])
    ELSE BestEmailUnvalidated(candidates, i + 1, valid)

\* lines 130-138: for email in candidates
RECURSIVE BestEmailFrom(_, _, _)
BestEmailFrom(candidates, i, valid) ==
    IF i > Len(candidates) THEN Returned(NA)
    ELSE IF candidates[i] # NA
         THEN LET verdict == validate_email(candidates[i], valid)
              IN  IF verdict = "ok" THEN Returned(candidates[i])
                  ELSE IF verdict = "EmailNotValidError"
                       THEN BestEmailFrom(candidates, i + 1, valid)
                       ELSE Raised(verdict)
         ELSE BestEmailFrom(candidates, i + 1, valid)

get_best_email(email_pyr, email_regex, email_spacy, valid) ==
    BestEmailFrom(<< email_pyr, email_regex, email_spacy >>, 1, valid)

-----------------------------------------------------------------------------
(* Entity strategies: enhanced_extraction.py lines 22-103 *)

\* data.get(key, "N/A"): the default applies only when the key is absent
DictGet(v) == IF v = Missing THEN NA ELSE v

\* lines 41-50; p = [raises, name, email] is what ResumeParser does for the file
extract_entities_pyresparser(p) ==
    IF p.raises THEN [name |-> NA, email |-> NA]
    ELSE [name |-> DictGet(p.name), email |-> DictGet(p.email)]

\* lines 86-103; n = [raises, name, email] is what the spaCy pipeline does
extract_entities_spacy(loaded, n) ==
    IF ~loaded THEN Returned([name |-> NA, email |-> NA])
    ELSE IF n.raises THEN Raised("ValueError")
    ELSE Returned([name |-> n.name, email |-> n.email])

\* lines 22-39; s = [pyr, rx, ner, valid]
extract_entities_multi_approach(loaded, s) ==
    LET pyr   == extract_entities_pyresparser(s.pyr)
        spacy == extract_entities_spacy(loaded, s.ner)
    IN  IF spacy.status = "raised" THEN Raised(spacy.value)
        ELSE LET final_name  == get_best_name(pyr.name, s.rx.name, spacy.value.name)
                 final_email == get_best_email(pyr.email, s.rx.email,
                                               spacy.value.email, s.valid)
             IN  IF final_email.status = "raised" THEN Raised(final_email.value)
                 ELSE Returned([name  |-> final_name,
                                email |-> final_email.value,
                                phone |-> s.rx.phone])

-----------------------------------------------------------------------------
(* Experience years: enhanced_extraction.py lines 162-175.  The lower-cased *)
(* text is a sequence of tokens; a number token carries its digits' value.  *)

Num(n)  == [kind |-> "num", val |-> n]
Word(w) == [kind |-> w, val |-> 0]

YearTokens == { Num(5), Num(10), Word("years"), Word("of"),
                Word("experience"), Word("in") }

KindAt(tokens, i) == IF i <= Len(tokens) THEN tokens[i].kind ELSE "<end>"

\* re.match of one pattern at token i: [len, group], len = 0 when it fails
\*   1: (\d+)\+?\s*years?\s*(?:of\s*)?experience
\*   2: (\d+)\+?\s*years?\s*in
\*   3: experience\s*:?\s*(\d+)\+?\s*years?
MatchAt(pattern, tokens, i) ==
    LET k(j) == KindAt(tokens, i + j)
        no == [len |-> 0, group |-> 0]
    IN  CASE pattern = 1 ->
               IF k(0) = "num" /\ k(1) = "years"
               THEN IF k(2) = "of" /\ k(3) = "experience"
                    THEN [len |-> 4, group |-> tokens[i].val]
                    ELSE IF k(2) = "experience"
                         THEN [len |-> 3, group |-> tokens[i].val]
                         ELSE no
               ELSE no
          [] pattern = 2 ->
               IF k(0) = "num" /\ k(1) = "years" /\ k(2) = "in"
               THEN [len |-> 3, group |-> tokens[i].val]
               ELSE no
          [] OTHER ->
               IF k(0) = "experience" /\ k(1) = "num" /\ k(2) = "years"
               THEN [len |-> 3, group |-> tokens[i + 1].val]
               ELSE no

\* re.findall: the groups of the non-overlapping matches, left to right
RECURSIVE FindAll(_, _, _)
FindAll(pattern, tokens, i) ==
    IF i > Len(tokens) THEN << >>
    ELSE LET m == MatchAt(pattern, tokens, i)
         IN  IF m.len > 0
             THEN << m.group >> \o FindAll(pattern, tokens, i + m.len)
             ELSE FindAll(pattern, tokens, i + 1)

\* max(int(match) for match in matches), matches non-empty
MaxOf(matches) ==
    CHOOSE m \in {matches[i] : i \in 1..Len(matches)} :
        \A j \in 1..Len(matches) : matches[j] <= m

NumPatterns == 3

\* lines 170-175: the first pattern with a match decides
RECURSIVE YearsFrom(_, _)
YearsFrom(pattern, tokens) ==
    IF pattern > NumPatterns THEN 0
    ELSE LET matches == FindAll(pattern, tokens, 1)
         IN  IF matches # << >> THEN MaxOf(matches)
             ELSE YearsFrom(pattern + 1, tokens)

extract_experience_years(tokens) == YearsFrom(1, tokens)

-----------------------------------------------------------------------------
(* Name heuristic: enhanced_extraction.py lines 70-84.  A line is a         *)
(* sequence of one-character strings.                                       *)

NAChars == << "N", "/", "A" >>     \* the string "N/A", character by character

Upper  == {"J", "D"}
Lower  == {"o", "e", "j"}
Digits == {"7"}
Spaces == {" "}

RECURSIVE LStrip(_)
LStrip(line) ==
    IF line # << >> /\ Head(line) \in Spaces THEN LStrip(Tail(line)) ELSE line

RECURSIVE RStrip(_)
RStrip(line) ==
    IF line # << >> /\ line[Len(line)] \in Spaces
    THEN RStrip(SubSeq(line, 1, Len(line) - 1))
    ELSE line

\* str.strip()
Strip(line) == RStrip(LStrip(line))

\* str.split(): the maximal runs of non-whitespace characters
RECURSIVE SplitWords(_, _)
SplitWords(line, word) ==
    IF line = << >> THEN (IF word = << >> THEN << >> ELSE << word >>)
    ELSE IF Head(line) \in Spaces
         THEN (IF word = << >> THEN << >> ELSE << word >>)
              \o SplitWords(Tail(line), << >>)
         ELSE SplitWords(Tail(line), Append(word, Head(line)))

Split(line) == SplitWords(line, << >>)

IsAlpha(word) ==
    word # << >> /\ \A i \in 1..Len(word) : word[i] \in Upper \cup Lower

\* lines 77-81 on the stripped line
LooksLikeName(line) ==
    /\ Len(line) > 0
    /\ ~ \E i \in 1..Len(line) : line[i] \in Digits
    /\ LET words == Split(line)
       IN  /\ 2 <= Len(words) /\ Len(words) <= 4
           /\ \A w \in 1..Len(words) : IsAlpha(words[w])
           /\ \A w \in 1..Len(words) : words[w][1] \in Upper

NameWindow == 5

\* a window that takes the first five non-blank lines of the text
NonBlankWindow(lines) ==
    LET RECURSIVE keep(_, _)
        keep(ls, n) ==
            IF ls = << >> \/ n = 0 THEN << >>
            ELSE IF Strip(Head(ls)) = << >> THEN keep(Tail(ls), n)
            ELSE << Head(ls) >> \o keep(Tail(ls), n - 1)
    IN  keep(lines, NameWindow)

\* lines[:5]
FirstLines(lines) ==
    SubSeq(lines, 1, IF Len(lines) < NameWindow THEN Len(lines) ELSE NameWindow)

\* lines 75-84: for i, line in enumerate(lines[:5])
RECURSIVE FirstNameIn(_)
FirstNameIn(window) ==
    IF window = << >> THEN NAChars
    ELSE LET line == Strip(Head(window))
         IN  IF LooksLikeName(line) THEN line ELSE FirstNameIn(Tail(window))

extract_name_heuristic(lines) == FirstNameIn(FirstLines(lines))

-----------------------------------------------------------------------------
(* Skills and scoring: enhanced_extraction.py lines 140-160, app.py 34-62.  *)
(* A text is known by the dictionary skills that occur in it as substrings. *)

\* skills_database in scan order (python, java of 'programming'; sql of 'database')
SkillsDB == << "python", "java", "sql" >>

\* lines 152-160: every dictionary skill found in the text, in dictionary order
extract_skills(text) ==
    LET Found(skill) == skill \in text
    IN  SelectSeq(SkillsDB, Found)

\* set(list)
ToSet(seq) == { seq[i] : i \in 1..Len(seq) }

SkillsWeightPct == 30       \* skills_weight = 0.3

\* app.py lines 34-62.  basic_similarity is the cosine similarity in thousandths;
\* the returned final_score * 100 is the exact fraction score_num / score_den.
\* With job_skills empty the else branch leaves matching_skills unassigned and
\* the return statement reads it.
enhanced_similarity_scoring(job_text, resume_text, basic_similarity) ==
    LET job_skills    == extract_skills(job_text)
        resume_skills == extract_skills(resume_text)
        matching_skills == ToSet(job_skills) \cap ToSet(resume_skills)
        total == Cardinality(ToSet(job_skills))
    IN  IF job_skills # << >>
        THEN Returned([score_num |-> (100 - SkillsWeightPct) * basic_similarity * total
                                     + SkillsWeightPct * 1000 * Cardinality(matching_skills),
                       score_den |-> 1000 * total,
                       matching_skills |-> Cardinality(matching_skills),
                       total_job_skills |-> total])
        ELSE Raised("UnboundLocalError")

\* round(num / den) to the nearest integer, halves to the even neighbour
RoundHalfEven(num, den) ==
    LET q == num \div den
        r == num % den
    IN  IF 2 * r < den THEN q
        ELSE IF 2 * r > den THEN q + 1
        ELSE IF q % 2 = 0 THEN q ELSE q + 1

\* round(similarity_score, 2), in hundredths
Round2(num, den) == RoundHalfEven(100 * num, den)

\* round(matching / total * 100 if total > 0 else 0, 1), in tenths
SkillsMatchRate(matching, total) ==
    IF total > 0 THEN RoundHalfEven(1000 * matching, total) ELSE 0

TopSkills == 10

\* app.py lines 120-132
RankedEntry(resume_data, score) ==
    [name |-> resume_data.name,
     email |-> resume_data.email,
     phone |-> resume_data.phone,
     similarity_score |-> Round2(score.score_num, score.score_den),
     matching_skills |-> score.matching_skills,
     total_job_skills |-> score.total_job_skills,
     skills_match_rate |-> SkillsMatchRate(score.matching_skills, score.total_job_skills),
     experience_years |-> resume_data.experience_years,
     top_skills |-> SubSeq(resume_data.skills, 1,
                           IF Len(resume_data.skills) < TopSkills
                           THEN Len(resume_data.skills) ELSE TopSkills),
     filename |-> resume_data.filename]

\* a descending sort that puts an entry ahead of the earlier entries it ties with
RECURSIVE SortTiesReversed(_)
SortTiesReversed(entries) ==
    IF entries = << >> THEN << >>
    ELSE LET sorted == SortTiesReversed(SubSeq(entries, 1, Len(entries) - 1))
             x == entries[Len(entries)]
             k == Cardinality({ i \in 1..Len(sorted) :
                                  sorted[i].similarity_score > x.similarity_score })
         IN  SubSeq(sorted, 1, k) \o << x >> \o SubSeq(sorted, k + 1, Len(sorted))

\* app.py line 135: list.sort(key=similarity_score, reverse=True), which is
\* stable: entries with equal keys keep their order
RECURSIVE SortByScoreDesc(_)
SortByScoreDesc(entries) ==
    IF entries = << >> THEN << >>
    ELSE LET sorted == SortByScoreDesc(SubSeq(entries, 1, Len(entries) - 1))
             x == entries[Len(entries)]
             k == Cardinality({ i \in 1..Len(sorted) :
                                  sorted[i].similarity_score >= x.similarity_score })
         IN  SubSeq(sorted, 1, k) \o << x >> \o SubSeq(sorted, k + 1, Len(sorted))

\* csv.writer writes None as the empty string
CsvField(v) == IF v = None THEN "" ELSE v

CsvHeader == << "Rank", "Name", "Email", "Phone", "Similarity_Score", "Filename" >>

\* app.py lines 139-149: open(..., "w") truncates, then header and rows
WriteCsv(ranking) ==
    [exists |-> TRUE,
     header |-> CsvHeader,
     rows |-> [i \in 1..Len(ranking) |->
                 [rank |-> i,
                  name |-> CsvField(ranking[i].name),
                  email |-> CsvField(ranking[i].email),
                  phone |-> CsvField(ranking[i].phone),
                  similarity_score |-> ranking[i].similarity_score,
                  filename |-> ranking[i].filename]]]

NoCsv == [exists |-> FALSE, header |-> << >>, rows |-> << >>]

-----------------------------------------------------------------------------
(* Inputs of the function-level specifications *)

MaxTokens == 7
MaxLines  == 6

SeqsUpTo(S, n) == UNION { [1..m -> S] : m \in 0..n }

NameValues   == Names \cup {NA}
EmailValues  == Emails \cup {NA}
PhoneValues  == Phones \cup {NA}

\* what ResumeParser(file).get_extracted_data() does: raise, or a mapping
\* whose "name"/"email" key is absent, None or a string
ParserOutcomes ==
    { [raises |-> TRUE, name |-> Missing, email |-> Missing] } \cup
    [raises : {FALSE}, name : Names \cup {Missing, None},
                       email : Emails \cup {Missing, None}]

\* the three results of extract_entities_regex
RegexOutcomes == [name : NameValues, email : EmailValues, phone : PhoneValues]

\* what self.nlp(text) does when the model is loaded: raise, or entities/tokens
NerOutcomes ==
    { [raises |-> TRUE, name |-> NA, email |-> NA] } \cup
    [raises : {FALSE}, name : NameValues, email : EmailValues]

StrategyOutcomes ==
    [pyr : ParserOutcomes, rx : RegexOutcomes, ner : NerOutcomes,
     valid : SUBSET Emails]

NoStrategies ==
    [pyr |-> [raises |-> TRUE, name |-> Missing, email |-> Missing],
     rx |-> [name |-> NA, email |-> NA, phone |-> NA],
     ner |-> [raises |-> TRUE, name |-> NA, email |-> NA],
     valid |-> {}]

Blank     == << >>
NameLine  == << " ", "J", "o", " ", "D", "e" >>
OtherName == << "D", "e", " ", "J", "o" >>
DigitLine == << "J", "o", " ", "D", "7" >>
LowerLine == << "j", "o", " ", "D", "e" >>
OneWord   == << "J", "o" >>
FiveWords == << "J", " ", "D", " ", "J", " ", "D", " ", "J" >>
Hyphened  == << "J", "-", "o", " ", "D", "e" >>

\* lines that do not look like a name, one for each condition of the heuristic
BadLines == { DigitLine, LowerLine, OneWord, FiveWords, Hyphened }

\* the texts: every arrangement of blank lines, the two names and one bad line
LineOf(shape, bad) ==
    CASE shape = "blank" -> Blank
      [] shape = "name"  -> NameLine
      [] shape = "other" -> OtherName
      [] OTHER           -> bad

Texts ==
    { [i \in 1..Len(sh) |-> LineOf(sh[i], bad)] :
        sh \in SeqsUpTo({"blank", "name", "other", "bad"}, MaxLines) \ { << >> },
        bad \in BadLines }

-----------------------------------------------------------------------------
(* Idle values of the variables a specification does not use *)

IdleConsensus ==
    /\ name_cands = << NA, NA, NA >> /\ email_cands = << NA, NA, NA >>
    /\ valid_emails = {} /\ best_name = Pending /\ best_email = Pending
IdleExtract   == strategies = NoStrategies /\ entities = Pending
IdleYears     == text_tokens = << >> /\ years = 0
IdleHeuristic == text_lines = << Blank >> /\ heuristic_name = NAChars
IdleRequest ==
    /\ job_description = {} /\ submitted = << >> /\ scanned_resumes = << >>
    /\ processing_errors = << >> /\ ranked_resumes = << >>
    /\ last_score = Pending /\ results = << >> /\ csv_file = NoCsv

-----------------------------------------------------------------------------
(* SpecConsensus: the two resolvers applied to candidate triples *)

InitConsensus ==
    /\ pc = "input"
    /\ nlp = TRUE
    /\ name_cands \in { c \in [1..3 -> NameValues \cup {None}] :
                          c[2] # None /\ c[3] # None }
    /\ email_cands \in { c \in [1..3 -> EmailValues \cup {None}] :
                          c[2] # None /\ c[3] # None }
    /\ valid_emails \in SUBSET Emails
    /\ best_name = Pending /\ best_email = Pending
    /\ IdleExtract /\ IdleYears /\ IdleHeuristic /\ IdleRequest

BestName ==
    /\ best_name = Pending
    /\ best_name' = Returned(get_best_name(name_cands[1], name_cands[2], name_cands[3]))
    /\ UNCHANGED << pc, nlp, name_cands, email_cands, valid_emails, best_email,
                    extractVars, yearsVars, heuristicVars, requestVars >>

BestEmail ==
    /\ best_email = Pending
    /\ best_email' = get_best_email(email_cands[1], email_cands[2], email_cands[3],
                                    valid_emails)
    /\ UNCHANGED << pc, nlp, name_cands, email_cands, valid_emails, best_name,
                    extractVars, yearsVars, heuristicVars, requestVars >>

NextConsensus == BestName \/ BestEmail

SpecConsensus == InitConsensus /\ [][NextConsensus]_vars

-----------------------------------------------------------------------------
(* SpecExtract: extract_entities_multi_approach on one resume *)

InitExtract ==
    /\ pc = "input"
    /\ nlp \in BOOLEAN
    /\ strategies \in StrategyOutcomes
    /\ entities = Pending
    /\ IdleConsensus /\ IdleYears /\ IdleHeuristic /\ IdleRequest

Extract ==
    /\ pc = "input"
    /\ entities' = extract_entities_multi_approach(nlp, strategies)
    /\ pc' = "done"
    /\ UNCHANGED << nlp, strategies, consensusVars, yearsVars, heuristicVars,
                    requestVars >>

NextExtract == Extract

SpecExtract == InitExtract /\ [][NextExtract]_vars

-----------------------------------------------------------------------------
(* SpecYears: extract_experience_years on one text *)

InitYears ==
    /\ pc = "input"
    /\ nlp = TRUE
    /\ text_tokens \in SeqsUpTo(YearTokens, MaxTokens)
    /\ years = 0
    /\ IdleConsensus /\ IdleExtract /\ IdleHeuristic /\ IdleRequest

ExtractYears ==
    /\ pc = "input"
    /\ years' = extract_experience_years(text_tokens)
    /\ pc' = "done"
    /\ UNCHANGED << nlp, text_tokens, consensusVars, extractVars, heuristicVars,
                    requestVars >>

NextYears == ExtractYears

SpecYears == InitYears /\ [][NextYears]_vars

-----------------------------------------------------------------------------
(* SpecHeuristic: extract_name_heuristic on one text *)

InitHeuristic ==
    /\ pc = "input"
    /\ nlp = TRUE
    /\ text_lines \in Texts
    /\ heuristic_name = NAChars
    /\ IdleConsensus /\ IdleExtract /\ IdleYears /\ IdleRequest

ExtractName ==
    /\ pc = "input"
    /\ heuristic_name' = extract_name_heuristic(text_lines)
    /\ pc' = "done"
    /\ UNCHANGED << nlp, text_lines, consensusVars, extractVars, yearsVars,
                    requestVars >>

NextHeuristic == ExtractName

SpecHeuristic == InitHeuristic /\ [][NextHeuristic]_vars

-----------------------------------------------------------------------------
(* The batch handler: app.py index(), lines 66-155 *)

MaxBatch       == 3     \* uploads per request under Spec
MaxExportBatch == 2     \* uploads per request under SpecExport

GoodEmail == "good@example.com"
BadEmail  == "bad@@x"
Phone     == "555-123-4567"

Parsed(n, e)  == [raises |-> FALSE, name |-> n, email |-> e]
ParserFails   == [raises |-> TRUE, name |-> Missing, email |-> Missing]
Ner(n, e)     == [raises |-> FALSE, name |-> n, email |-> e]
NerFails      == [raises |-> TRUE, name |-> NA, email |-> NA]
Regex(n, e, p) == [name |-> n, email |-> e, phone |-> p]

\* An uploaded PDF: whether extract_text_from_pdf yields only whitespace, what
\* the three strategies do on it, the dictionary skills in its text, the result
\* of extract_experience_years and its cosine similarity to the job description
Upload(blank, pyr, rx, ner, skills, exp, sim) ==
    [blank |-> blank,
     strategies |-> [pyr |-> pyr, rx |-> rx, ner |-> ner, valid |-> {GoodEmail}],
     text |-> skills, experience_years |-> exp, basic_similarity |-> sim]

EmptyPdf  == Upload(TRUE, ParserFails, Regex(NA, NA, NA), Ner(NA, NA), {}, 0, 0)
JanePdf   == Upload(FALSE, Parsed("Jane Doe", GoodEmail),
                    Regex("Jane Doe", GoodEmail, Phone), Ner("Jane Doe", GoodEmail),
                    {"python", "sql"}, 5, 800)
AlicePdf  == Upload(FALSE, ParserFails, Regex(NA, BadEmail, NA), Ner("Alice B", NA),
                    {"python"}, 0, 500)
NoNamePdf == Upload(FALSE, Parsed(None, Missing), Regex(NA, GoodEmail, Phone),
                    Ner(NA, NA), {"python"}, 10, 500)
LongPdf   == Upload(FALSE, Parsed("Jane Doe", GoodEmail),
                    Regex("Jane Doe", GoodEmail, NA), NerFails, {"java"}, 5, 300)
NoMailPdf == Upload(FALSE, Parsed("Alice B", None), Regex("Alice B", NA, NA),
                    Ner("Alice B", NA), {"sql"}, 0, 900)

Uploads == { EmptyPdf, JanePdf, AlicePdf, NoNamePdf, LongPdf, NoMailPdf }

\* job descriptions, each known by the dictionary skills it mentions
JobDescriptions == { {}, {"python"}, {"python", "sql"} }

FileName(i) == "resume" \o ToString(i) \o ".pdf"

InitRequest ==
    /\ pc = "idle"
    /\ nlp \in BOOLEAN
    /\ IdleRequest
    /\ IdleConsensus /\ IdleExtract /\ IdleYears /\ IdleHeuristic

otherVars == << nlp, consensusVars, extractVars, yearsVars, heuristicVars >>

\* lines 67-78: a POST request arrives
BeginPost(job) ==
    /\ job_description' = job
    /\ submitted' = << >>
    /\ scanned_resumes' = << >>
    /\ processing_errors' = << >>
    /\ ranked_resumes' = << >>
    /\ results' = << >>
    /\ last_score' = Pending
    /\ pc' = "scanning"
    /\ UNCHANGED << csv_file, otherVars >>

\* the first request on a fresh server
StartPost == \E job \in JobDescriptions : pc = "idle" /\ BeginPost(job)

\* a later request, after the previous one returned or failed
NextPost == \E job \in JobDescriptions : pc \in {"done", "crashed"} /\ BeginPost(job)

\* lines 80-111: one iteration of `for resume_file in resume_files`
ProcessResume(limit) ==
    \E upload \in Uploads :
        /\ pc = "scanning"
        /\ Len(submitted) < limit
        /\ LET filename == FileName(Len(submitted) + 1)
               found == extract_entities_multi_approach(nlp, upload.strategies)
           IN  /\ submitted' = Append(submitted, [filename |-> filename, upload |-> upload])
               /\ IF upload.blank
                  THEN /\ processing_errors' =
                            Append(processing_errors,
                                   [error |-> "Could not extract text", filename |-> filename])
                       /\ UNCHANGED scanned_resumes
                  ELSE IF found.status = "raised"
                  THEN /\ processing_errors' =
                            Append(processing_errors,
                                   [error |-> "Error processing", filename |-> filename])
                       /\ UNCHANGED scanned_resumes
                  ELSE /\ scanned_resumes' =
                            Append(scanned_resumes,
                                   [filename |-> filename,
                                    name |-> found.value.name,
                                    email |-> found.value.email,
                                    phone |-> found.value.phone,
                                    skills |-> extract_skills(upload.text),
                                    experience_years |-> upload.experience_years,
                                    resume_text |-> upload.text,
                                    basic_similarity |-> upload.basic_similarity])
                       /\ UNCHANGED processing_errors
        /\ UNCHANGED << pc, job_description, ranked_resumes, last_score, results,
                        csv_file, otherVars >>

\* the upload loop ends
EndOfUploads ==
    /\ pc = "scanning"
    /\ pc' = "ranking"
    /\ UNCHANGED << job_description, submitted, scanned_resumes, processing_errors,
                    ranked_resumes, last_score, results, csv_file, otherVars >>

\* lines 115-132: one iteration of `for resume_data in scanned_resumes`; an
\* exception of the scoring call is not caught and ends the request
ScoreResume ==
    /\ pc = "ranking"
    /\ Len(ranked_resumes) < Len(scanned_resumes)
    /\ LET resume_data == scanned_resumes[Len(ranked_resumes) + 1]
           score == enhanced_similarity_scoring(job_description, resume_data.resume_text,
                                                resume_data.basic_similarity)
       IN  /\ last_score' = score
           /\ IF score.status = "raised"
              THEN pc' = "crashed" /\ UNCHANGED ranked_resumes
              ELSE /\ ranked_resumes' =
                        Append(ranked_resumes, RankedEntry(resume_data, score.value))
                   /\ UNCHANGED pc
    /\ UNCHANGED << job_description, submitted, scanned_resumes, processing_errors,
                    results, csv_file, otherVars >>

\* lines 134-155: sort, write the CSV, render
SortAndSave ==
    /\ pc = "ranking"
    /\ Len(ranked_resumes) = Len(scanned_resumes)
    /\ ranked_resumes' = SortByScoreDesc(ranked_resumes)
    /\ results' = ranked_resumes'
    /\ csv_file' = WriteCsv(results')
    /\ pc' = "done"
    /\ UNCHANGED << job_description, submitted, scanned_resumes, processing_errors,
                    last_score, otherVars >>

Next ==
    \/ StartPost
    \/ ProcessResume(MaxBatch)
    \/ EndOfUploads
    \/ ScoreResume
    \/ SortAndSave

Spec == InitRequest /\ [][Next]_vars

NextExport ==
    \/ StartPost
    \/ NextPost
    \/ ProcessResume(MaxExportBatch)
    \/ EndOfUploads
    \/ ScoreResume
    \/ SortAndSave

SpecExport == InitRequest /\ [][NextExport]_vars

-----------------------------------------------------------------------------
(* Properties of the function-level specifications *)

Min(S) == CHOOSE x \in S : \A y \in S : x <= y

\* The name the consensus rule names for a triple c = <<parser, regex, NER>>
ClaimedName(c) ==
    LET agreed == { i \in 1..3 : c[i] # NA /\ \E j \in 1..3 : j # i /\ c[j] = c[i] }
    IN  IF \A i \in 1..3 : c[i] = NA THEN NA
        ELSE IF agreed # {} THEN c[Min(agreed)]
        ELSE IF c[1] # NA THEN c[1]
        ELSE IF c[3] # NA THEN c[3]
        ELSE c[2]

\* C1: get_best_name returns "N/A" for three "N/A", else the first value two
\* candidates agree on, else the parser's, else the NER's, else the regex's.
C1_NameConsensus ==
    best_name # Pending => best_name = Returned(ClaimedName(name_cands))

\* C1 witness: parser "N/A", regex and NER disagree, and the NER name is returned
C1_Witness ==
    /\ best_name # Pending
    /\ name_cands[1] = NA /\ name_cands[2] # NA /\ name_cands[3] # NA
    /\ name_cands[2] # name_cands[3]
    /\ best_name.value = name_cands[3]

\* The email the rule names: the first candidate that is not "N/A" and passes
ClaimedEmail(c, valid) ==
    LET passing == { i \in 1..3 : c[i] # NA /\ c[i] \in valid }
    IN  IF passing = {} THEN NA ELSE c[Min(passing)]

ClaimedYears(tokens) ==
    LET all == FindAll(1, tokens, 1) \o FindAll(2, tokens, 1) \o FindAll(3, tokens, 1)
    IN  IF all = << >> THEN 0 ELSE MaxOf(all)

\* C3: extract_experience_years returns the maximum over all matches of all
\* three patterns taken together, and 0 when no pattern matches.
C3_MaxOverAllPatterns ==
    pc = "done" => years = ClaimedYears(text_tokens)

\* C7: the name, email and phone returned by extract_entities_multi_approach
\* are each a string (a real value or "N/A"), never null or absent.
C7_SentinelNeverNull ==
    entities.status = "returned" =>
        /\ entities.value.name \notin {None, Missing}
        /\ entities.value.email \notin {None, Missing}
        /\ entities.value.phone \notin {None, Missing}

\* C8: when a strategy fails, the extraction still returns, and the consensus
\* is the one computed with the failed strategy's candidates taken as "N/A".
C8_StrategyFailureContained ==
    LET pyrFailed == strategies.pyr.raises
        nerFailed == nlp /\ strategies.ner.raises
        pyr == IF pyrFailed THEN [name |-> NA, email |-> NA]
               ELSE extract_entities_pyresparser(strategies.pyr)
        ner == IF nerFailed \/ ~nlp THEN [name |-> NA, email |-> NA]
               ELSE [name |-> strategies.ner.name, email |-> strategies.ner.email]
    IN  (pc = "done" /\ (pyrFailed \/ nerFailed) /\ pyr.email # None) =>
            /\ entities.status = "returned"
            /\ entities.value.name = get_best_name(pyr.name, strategies.rx.name, ner.name)

IsNonBlank(line) == Strip(line) # << >>

FirstQualifying(window) ==
    LET q == { i \in 1..Len(window) : LooksLikeName(Strip(window[i])) }
    IN  IF q = {} THEN NAChars ELSE Strip(window[Min(q)])

Prefix(seq, n) == SubSeq(seq, 1, IF Len(seq) < n THEN Len(seq) ELSE n)

\* C10 as stated: the first qualifying line among the first 5 non-empty lines
\* (blank lines do not count toward the 5), "N/A" when none qualifies.
C10_FirstFiveNonEmptyLines ==
    pc = "done" =>
        heuristic_name = FirstQualifying(Prefix(SelectSeq(text_lines, IsNonBlank), 5))

\* C10 amended: the first qualifying line among the first 5 lines of the text,
\* blank lines counting toward the 5, "N/A" when none of them qualifies.
C10_FirstFiveLines ==
    pc = "done" => heuristic_name = FirstQualifying(Prefix(text_lines, 5))

\* C10 witness: a blank first line, no name in lines 2-4, and the name of
\* line 5 is returned stripped
C10_Witness ==
    /\ pc = "done"
    /\ Len(text_lines) >= 5
    /\ text_lines[1] = Blank
    /\ \A i \in 2..4 : ~LooksLikeName(Strip(text_lines[i]))
    /\ text_lines[5] = NameLine
    /\ heuristic_name = Strip(NameLine)

-----------------------------------------------------------------------------
(* Properties of the batch handler *)

\* the dictionary skills of a text, as a set
SkillSet(text) == text \cap ToSet(SkillsDB)

\* C4: every scoring call returns a triple whose counts are the number of
\* distinct skills found in both texts and the number found in the job
\* description; with no skill in the job description both counts are 0 and
\* the entry's skills match rate is 0.
C4_ScoringReturnsCounts ==
    /\ last_score.status # "raised"
    /\ (pc = "ranking" /\ last_score.status = "returned") =>
          LET n == Len(ranked_resumes)
              resume_data == scanned_resumes[n]
              jobSkills == SkillSet(job_description)
          IN  /\ last_score.value.matching_skills =
                     Cardinality(jobSkills \cap SkillSet(resume_data.resume_text))
              /\ last_score.value.total_job_skills = Cardinality(jobSkills)
              /\ jobSkills = {} => ranked_resumes[n].skills_match_rate = 0

ProcessedOk(i) ==
    /\ ~submitted[i].upload.blank
    /\ extract_entities_multi_approach(nlp, submitted[i].upload.strategies).status
           = "returned"

EntriesOf(filename) ==
    { k \in 1..Len(results) : results[k].filename = filename }

ErrorsOf(filename) ==
    { k \in 1..Len(processing_errors) : processing_errors[k].filename = filename }

\* C5: every POST request runs to completion and returns a ranking; each
\* upload with empty text gives exactly one processing error and no entry, and
\* each successfully processed upload gives exactly one ranked entry.
C5_BatchCompletes ==
    /\ pc # "crashed"
    /\ pc = "done" =>
          \A i \in 1..Len(submitted) :
              LET f == submitted[i].filename
              IN  /\ submitted[i].upload.blank =>
                        Cardinality(ErrorsOf(f)) = 1 /\ EntriesOf(f) = {}
                  /\ ProcessedOk(i) => Cardinality(EntriesOf(f)) = 1

\* position of an upload in the submitted batch
SubmittedAt(filename) ==
    CHOOSE i \in 1..Len(submitted) : submitted[i].filename = filename

\* C6: the returned ranking is ordered by non-increasing similarity_score, and
\* entries with equal similarity_score appear in submission order.
C6_StableDescending ==
    pc = "done" =>
        \A i, j \in 1..Len(results) :
            i < j =>
                /\ results[i].similarity_score >= results[j].similarity_score
                /\ results[i].similarity_score = results[j].similarity_score =>
                       SubmittedAt(results[i].filename) < SubmittedAt(results[j].filename)

\* C6 witness: three entries, the best submitted last and ranked first, the
\* other two tied and in submission order
C6_Witness ==
    /\ pc = "done"
    /\ Len(results) = 3
    /\ results[1].similarity_score > results[2].similarity_score
    /\ results[2].similarity_score = results[3].similarity_score
    /\ SubmittedAt(results[1].filename) = 3
    /\ SubmittedAt(results[2].filename) < SubmittedAt(results[3].filename)

\* C9: after any sequence of POST requests the CSV export holds the header and
\* one row per entry of the most recent request's ranking, in ranked order,
\* with ranks 1..n, and no row of an earlier request.
C9_ExportIsLatestRanking ==
    (pc \in {"done", "crashed"} /\ csv_file.exists) =>
        /\ csv_file.header = CsvHeader
        /\ Len(csv_file.rows) = Len(results)
        /\ \A i \in 1..Len(csv_file.rows) :
               /\ csv_file.rows[i].rank = i
               /\ i <= Len(results) =>
                     /\ csv_file.rows[i].filename = results[i].filename
                     /\ csv_file.rows[i].similarity_score = results[i].similarity_score

====
